---- MODULE Spec2Model ----
(***************************************************************************)
(* father-file-numberer: renumbers the files of a directory by shifting    *)
(* the first digit run of every file name by a fixed offset.               *)
(*                                                                         *)
(* The module models src/main.rs: the FILENAME regex, the digit-count      *)
(* helper log10 (with log2 and its two tables), the padding computation    *)
(* and the directory walk process_directory over a small file system.      *)
(* File names are sequences of one-character strings.                      *)
(***************************************************************************)
EXTENDS Integers, Sequences, FiniteSets, TLC

VARIABLES
    cfg,      \* the arguments of process_directory (main.rs:71-87)
    fs,       \* the file system: a set of directory entries
    fs0,      \* the file system when the walk started
    stack,    \* one frame per active process_directory call (its read_dir stream)
    log,      \* one record per directory entry the loop body handled
    status,   \* "running", "Ok" or "Err" (what process_directory returned), "panicked"
    fresh,    \* how many names created during the walk a listing has yielded
    lphase,   \* digit-count harness: "idle", "arg" or "done"
    ln,       \* digit-count harness: the argument of log10
    lres,     \* digit-count harness: the value log10 returned
    mphase,   \* matcher harness: "idle", "arg" or "done"
    mname,    \* matcher harness: the file name handed to FILENAME.captures
    mres      \* matcher harness: the captures

vars == <<cfg, fs, fs0, stack, log, status, fresh, lphase, ln, lres, mphase, mname, mres>>

walkVars == <<cfg, fs, fs0, stack, log, status, fresh>>
logVars == <<lphase, ln, lres>>
matchVars == <<mphase, mname, mres>>

----------------------------------------------------------------------------
(* Bounds of the model *)

MaxFiles == 1      \* files placed in the root directory
MaxFresh == 1      \* names created by the walk that a listing may yield
MaxNameLen == 3    \* length of the names handed to the matcher harness
MaxSmall == 130    \* the digit-count harness tries every n in 0..MaxSmall

----------------------------------------------------------------------------
(* Numbers and characters *)

I32Max == 2147483647
I32Min == (-I32Max) - 1

INFO_VERBOSITY == 1

Max(a, b) == IF a >= b THEN a ELSE b

Digits == {"0", "1", "2", "3", "4", "5", "6", "7", "8", "9"}

IsDigit(c) == c \in Digits

DigitVal(c) ==
    CASE c = "0" -> 0 [] c = "1" -> 1 [] c = "2" -> 2 [] c = "3" -> 3
      [] c = "4" -> 4 [] c = "5" -> 5 [] c = "6" -> 6 [] c = "7" -> 7
      [] c = "8" -> 8 [] c = "9" -> 9

DigitChar(d) == <<"0", "1", "2", "3", "4", "5", "6", "7", "8", "9">>[d + 1]

\* the regex '.' matches every character except the line feed
DotMatches(c) == c # "\n"

AllDot(s) == \A i \in 1..Len(s) : DotMatches(s[i])

AllDigits(s) == \A i \in 1..Len(s) : IsDigit(s[i])

Repeat0(k) == [i \in 1..k |-> "0"]

NoneOpt == [some |-> FALSE, val |-> 0]
Some(v) == [some |-> TRUE, val |-> v]

----------------------------------------------------------------------------
(* FILENAME = ^(.*?)([0-9]+)(.*?)$ , main.rs:115, and captures, main.rs:119 *)

\* the digit runs ([0-9]+) can take after a prefix of p characters such that
\* the last group (.*?) reaches the end of the name
Runs(name, p) ==
    {d \in 1..(Len(name) - p) :
        /\ AllDigits(SubSeq(name, p + 1, p + d))
        /\ AllDot(SubSeq(name, p + d + 1, Len(name)))}

\* the backtracking search: the lazy first group (.*?) starts empty and grows
\* by one character '.' matches each time the rest fails; the greedy
\* ([0-9]+) takes the longest run that lets the rest match
RECURSIVE Search(_, _)
Search(name, p) ==
    IF p >= Len(name) THEN <<>>
    ELSE LET ds == IF IsDigit(name[p + 1]) THEN Runs(name, p) ELSE {}
         IN IF ds # {}
            THEN <<p, CHOOSE d \in ds : \A e \in ds : d >= e>>
            ELSE IF DotMatches(name[p + 1]) THEN Search(name, p + 1) ELSE <<>>

FILENAME(name) ==
    LET s == Search(name, 0)
    IN IF s = <<>>
       THEN [matched |-> FALSE, prefix |-> <<>>, digits |-> <<>>, suffix |-> <<>>]
       ELSE [matched |-> TRUE,
             prefix |-> SubSeq(name, 1, s[1]),
             digits |-> SubSeq(name, s[1] + 1, s[1] + s[2]),
             suffix |-> SubSeq(name, s[1] + s[2] + 1, Len(name))]

\* str::parse::<i32>() on a digit string, main.rs:122: Err on overflow
RECURSIVE ParseAcc(_, _)
ParseAcc(ds, acc) ==
    IF ds = <<>> THEN [ok |-> TRUE, val |-> acc]
    ELSE LET d == DigitVal(Head(ds))
         IN IF acc > (I32Max - d) \div 10
            THEN [ok |-> FALSE, val |-> 0]
            ELSE ParseAcc(Tail(ds), acc * 10 + d)

ParseI32(ds) == ParseAcc(ds, 0)

\* Display of an i32, the "{}" of adjusted_number in main.rs:140
RECURSIVE NatDigits(_)
NatDigits(n) ==
    IF n < 10 THEN <<DigitChar(n)>>
    ELSE Append(NatDigits(n \div 10), DigitChar(n % 10))

\* digits of |n| for n < 0, computed without negating n (|i32::MIN| is no i32)
RECURSIVE NegDigits(_)
NegDigits(n) ==
    LET r == n % 10
        last == IF r = 0 THEN 0 ELSE 10 - r
        q == IF r = 0 THEN n \div 10 ELSE (n \div 10) + 1
    IN IF q = 0 THEN <<DigitChar(last)>>
       ELSE Append(NegDigits(q), DigitChar(last))

FormatI32(n) == IF n >= 0 THEN NatDigits(n) ELSE <<"-">> \o NegDigits(n)

----------------------------------------------------------------------------
(* log2 and log10, main.rs:201-227 *)

\* 32 - n.leading_zeros(): the number of bits of n
RECURSIVE BitLength(_)
BitLength(n) == IF n = 0 THEN 0 ELSE 1 + BitLength(n \div 2)

log2(n) == IF n # 0 THEN BitLength(n) ELSE 0

GUESS ==
    << 0, 0, 0, 0, 1, 1, 1, 2, 2, 2,
       3, 3, 3, 3, 4, 4, 4, 5, 5, 5,
       6, 6, 6, 6, 7, 7, 7, 8, 8, 8,
       9, 9, 9 >>

TEN_TO_THE ==
    << 1, 10, 100, 1000, 10000, 100000,
       1000000, 10000000, 100000000, 1000000000 >>

log10_strict(n) ==
    LET digits == GUESS[log2(n) + 1]
        adjustment == IF n > TEN_TO_THE[digits + 1] THEN 1 ELSE 0
    IN digits + adjustment

log10(n) ==
    LET digits == GUESS[log2(n) + 1]
        adjustment == IF n >= TEN_TO_THE[digits + 1] THEN 1 ELSE 0
    IN digits + adjustment

----------------------------------------------------------------------------
(* The file system the walk runs on *)

\* an entry: the directory it is in, its name, the file or directory it names
Entry(parent, name, id, isDir) ==
    [parent |-> parent, name |-> name, id |-> id, isDir |-> isDir]

RootDir == 0

\* the files the root directory is drawn from; a file's id is its index
FilePool ==
    << <<"a", "1">>,
       <<"a", "2">>,
       <<"n">>,
       <<"g", "9", "9", "9", "9", "9", "9", "9", "9", "9", "9">>,
       <<"m", "2", "1", "4", "7", "4", "8", "3", "6", "4", "7">> >>

SubDirName == <<"s", "5">>
SubDirId == Len(FilePool) + 1
SubFileName == <<"b", "0", "9">>
SubFileId == Len(FilePool) + 2

Trees ==
    {  {Entry(RootDir, FilePool[i], i, FALSE) : i \in picked}
         \cup (IF withDir
               THEN {Entry(RootDir, SubDirName, SubDirId, TRUE),
                     Entry(SubDirId, SubFileName, SubFileId, FALSE)}
               ELSE {})
       : picked \in {S \in SUBSET (1..Len(FilePool)) : Cardinality(S) <= MaxFiles},
         withDir \in BOOLEAN }

Offsets == {-2, 1}
Starts == {NoneOpt, Some(2)}
Ends == {NoneOpt, Some(2)}
Widths == {NoneOpt, Some(3)}
Verbosities == {0, 2}

Configs ==
    [recursive : BOOLEAN, start : Starts, end : Ends, dry_run : BOOLEAN,
     number_width : Widths, verbosity : Verbosities, offset : Offsets]

Lookup(fsys, dir, name) == {e \in fsys : e.parent = dir /\ e.name = name}

NamesIn(fsys, dir) == {e.name : e \in {x \in fsys : x.parent = dir}}

\* Path::is_dir, main.rs:108: the path exists and names a directory
is_dir(fsys, dir, name) == \E e \in Lookup(fsys, dir, name) : e.isDir

\* fs::read_dir, main.rs:105: a stream over the names the directory holds
read_dir(fsys, dir) == [dir |-> dir, todo |-> NamesIn(fsys, dir), done |-> {}]

\* fs::rename, main.rs:157, with the semantics of rename(2); envOk = FALSE is
\* a failure the environment causes (permissions, a locked file)
rename(fsys, dir, src, dst, envOk) ==
    LET s == Lookup(fsys, dir, src)
        t == Lookup(fsys, dir, dst)
        fail == [ok |-> FALSE, fs |-> fsys]
    IN IF s = {} \/ ~envOk THEN fail
       ELSE LET se == CHOOSE e \in s : TRUE
                moved == [se EXCEPT !.name = dst]
            IN IF src = dst THEN [ok |-> TRUE, fs |-> fsys]
               ELSE IF t = {} THEN [ok |-> TRUE, fs |-> (fsys \ {se}) \cup {moved}]
               ELSE LET te == CHOOSE e \in t : TRUE
                    IN IF se.isDir # te.isDir THEN fail
                       ELSE IF te.isDir /\ (\E c \in fsys : c.parent = te.id) THEN fail
                       ELSE [ok |-> TRUE, fs |-> (fsys \ {se, te}) \cup {moved}]

----------------------------------------------------------------------------
(* The loop body of process_directory, main.rs:106-174 *)

\* the closure |x| x + offset, main.rs:100, on i32: val is the wrapped sum
adjuster(x, offset) ==
    IF offset > 0 /\ x > I32Max - offset
    THEN [overflow |-> TRUE, val |-> I32Min + ((x - (I32Max - offset)) - 1)]
    ELSE IF offset < 0 /\ x < I32Min - offset
    THEN [overflow |-> TRUE, val |-> I32Max - (((I32Min - offset) - x) - 1)]
    ELSE [overflow |-> FALSE, val |-> x + offset]

\* main.rs:126-128
start_ok(start, number) == IF start.some THEN number >= start.val ELSE TRUE
end_ok(end, number) == IF end.some THEN number <= end.val ELSE TRUE
in_range(start, end, number) == start_ok(start, number) /\ end_ok(end, number)

\* main.rs:132-139: u32::try_from(adjusted_number).unwrap() panics below zero
pad(number_width, adjusted_number) ==
    IF number_width.some
    THEN IF adjusted_number < 0
         THEN [panic |-> TRUE, val |-> 0]
         ELSE LET needed_zeros == number_width.val - log10(adjusted_number)
              IN [panic |-> FALSE, val |-> Max(0, needed_zeros)]
    ELSE [panic |-> FALSE, val |-> 0]

\* main.rs:140: the digits written between prefix and suffix
number_string(padding, adjusted_number) ==
    Repeat0(padding) \o FormatI32(adjusted_number)

new_filename(prefix, padding, adjusted_number, suffix) ==
    prefix \o number_string(padding, adjusted_number) \o suffix

\* main.rs:154-161: report only, or rename and report the outcome
commit_always(dry_run, fsys, dir, src, dst, envOk) ==
    LET r == rename(fsys, dir, src, dst, envOk)
    IN IF r.ok
       THEN [outcome |-> "renamed", line |-> "rename", fs |-> r.fs]
       ELSE [outcome |-> "rename_failed", line |-> "error", fs |-> r.fs]

commit(dry_run, fsys, dir, src, dst, envOk) ==
    IF dry_run
    THEN [outcome |-> "dry_run", line |-> "rename", fs |-> fsys]
    ELSE LET r == rename(fsys, dir, src, dst, envOk)
         IN IF r.ok
            THEN [outcome |-> "renamed", line |-> "rename", fs |-> r.fs]
            ELSE [outcome |-> "rename_failed", line |-> "error", fs |-> r.fs]

\* main.rs:163 and 169
skip_line(verbosity, line) == IF verbosity > INFO_VERBOSITY THEN line ELSE "none"

\* what the log keeps of one entry
Rec(fsys, dir, name, outcome, line, number, adjusted, numstr, newname) ==
    LET e == Lookup(fsys, dir, name)
    IN [dir |-> dir, name |-> name,
        id |-> IF e = {} THEN -1 ELSE (CHOOSE x \in e : TRUE).id,
        isDir |-> is_dir(fsys, dir, name),
        outcome |-> outcome, line |-> line, number |-> number,
        adjusted |-> adjusted, numstr |-> numstr, newname |-> newname]

Panicked(fsys, dir, name, outcome, number, adjusted) ==
    [fs |-> fsys, status |-> "panicked",
     rec |-> Rec(fsys, dir, name, outcome, "none", number, adjusted, <<>>, <<>>)]

\* the else branch, main.rs:114-173, for the entry `name` of `dir`, where
\* captures is FILENAME.captures(filename). An overflowing sum in the adjuster
\* panics when the build checks overflow and wraps when it does not.
file_branch(c, fsys, dir, name, captures, envOk, checked) ==
    IF ~captures.matched
    THEN [fs |-> fsys, status |-> "running",
          rec |-> Rec(fsys, dir, name, "nonmatch",
                      skip_line(c.verbosity, "skip_nomatch"), 0, 0, <<>>, <<>>)]
    ELSE LET parsed == ParseI32(captures.digits)
             number == parsed.val
         IN IF ~parsed.ok
            THEN Panicked(fsys, dir, name, "panic_parse", 0, 0)
            ELSE IF ~in_range(c.start, c.end, number)
            THEN [fs |-> fsys, status |-> "running",
                  rec |-> Rec(fsys, dir, name, "out_of_range",
                              skip_line(c.verbosity, "skip_range"),
                              number, 0, <<>>, <<>>)]
            ELSE LET adj == adjuster(number, c.offset)
                     adjusted_number == adj.val
                     padding == pad(c.number_width, adjusted_number)
                 IN IF adj.overflow /\ checked
                    THEN Panicked(fsys, dir, name, "panic_add", number, 0)
                    ELSE IF padding.panic
                    THEN Panicked(fsys, dir, name, "panic_try_from",
                                  number, adjusted_number)
                    ELSE LET new == new_filename(captures.prefix, padding.val,
                                                 adjusted_number, captures.suffix)
                             done == commit(c.dry_run, fsys, dir, name, new, envOk)
                         IN [fs |-> done.fs, status |-> "running",
                             rec |-> Rec(fsys, dir, name, done.outcome, done.line,
                                         number, adjusted_number,
                                         number_string(padding.val, adjusted_number),
                                         new)]

-----
(* The walk *)

Top == stack[Len(stack)]

\* the names the read_dir stream of a frame can yield next: those it read
\* when it was opened and, the listing being lazy, names created since
Yieldable(f) ==
    f.todo \cup (IF fresh < MaxFresh
                 THEN NamesIn(fs, f.dir) \ (f.todo \cup f.done)
                 ELSE {})

Take(f, name) == [f EXCEPT !.todo = @ \ {name}, !.done = @ \cup {name}]

Fresh(f, name) == IF name \in f.todo THEN fresh ELSE fresh + 1

\* the parts of the state a specification does not use
HarnessIdle ==
    /\ lphase = "idle" /\ ln = 0 /\ lres = 0
    /\ mphase = "idle" /\ mname = <<>> /\ mres = FILENAME(<<>>)

WalkIdle ==
    /\ cfg = [recursive |-> FALSE, start |-> NoneOpt, end |-> NoneOpt,
              dry_run |-> TRUE, number_width |-> NoneOpt, verbosity |-> 0,
              offset |-> 0]
    /\ fs = {} /\ fs0 = {} /\ stack = <<>> /\ log = <<>>
    /\ status = "idle" /\ fresh = 0

Init ==
    /\ cfg \in Configs
    /\ fs \in Trees
    /\ fs0 = fs
    /\ stack = <<read_dir(fs, RootDir)>>
    /\ log = <<>>
    /\ status = "running"
    /\ fresh = 0
    /\ HarnessIdle

\* main.rs:108-112: recurse into a subdirectory
Descend ==
    /\ status = "running"
    /\ \E name \in Yieldable(Top) :
        /\ cfg.recursive /\ is_dir(fs, Top.dir, name)
        /\ LET sub == CHOOSE e \in Lookup(fs, Top.dir, name) : TRUE
           IN stack' = Append([stack EXCEPT ![Len(stack)] = Take(Top, name)],
                              read_dir(fs, sub.id))
        /\ log' = Append(log, Rec(fs, Top.dir, name, "recursed", "none",
                                  0, 0, <<>>, <<>>))
        /\ fresh' = Fresh(Top, name)
    /\ UNCHANGED <<cfg, fs, fs0, status, logVars, matchVars>>

\* main.rs:113-174: match, filter, adjust, pad and rename one entry (the
\* names of the model are valid UTF-8, so to_str() of main.rs:118 is Some)
HandleEntry ==
    /\ status = "running"
    /\ \E name \in Yieldable(Top) :
        /\ ~(cfg.recursive /\ is_dir(fs, Top.dir, name))
        /\ LET captures == FILENAME(name)
           IN \E envOk \in BOOLEAN, checked \in BOOLEAN :
               LET r == file_branch(cfg, fs, Top.dir, name, captures, envOk, checked)
               IN /\ fs' = r.fs
                  /\ status' = r.status
                  /\ log' = Append(log, r.rec)
        /\ stack' = [stack EXCEPT ![Len(stack)] = Take(Top, name)]
        /\ fresh' = Fresh(Top, name)
    /\ UNCHANGED <<cfg, fs0, logVars, matchVars>>

\* main.rs:105 and 176: the stream is exhausted, the call returns Ok(())
Return ==
    /\ status = "running"
    /\ Top.todo \cap NamesIn(fs, Top.dir) = {}
    /\ stack' = SubSeq(stack, 1, Len(stack) - 1)
    /\ status' = IF Len(stack) = 1 THEN "Ok" ELSE "running"
    /\ UNCHANGED <<cfg, fs, fs0, log, fresh, logVars, matchVars>>

\* main.rs:105, 106 and 111: read_dir or the stream fails; the error is
\* returned through every active call
ListingFails ==
    /\ status = "running"
    /\ stack' = <<>>
    /\ status' = "Err"
    /\ UNCHANGED <<cfg, fs, fs0, log, fresh, logVars, matchVars>>

Next == Descend \/ HandleEntry \/ Return \/ ListingFails

Spec == Init /\ [][Next]_vars

----------------------------------------------------------------------------
(* log10 applied to the numbers around every power of ten *)

RECURSIVE Pow10(_)
Pow10(k) == IF k = 0 THEN 1 ELSE 10 * Pow10(k - 1)

RECURSIVE Pow2(_)
Pow2(k) == IF k = 0 THEN 1 ELSE 2 * Pow2(k - 1)

LogInputs ==
    (0..MaxSmall)
      \cup {Pow10(k) - 1 : k \in 1..9} \cup {Pow10(k) : k \in 1..9}
      \cup {Pow2(k) - 1 : k \in 1..30} \cup {Pow2(k) : k \in 1..30}
      \cup {I32Max}

InitLog10 ==
    /\ WalkIdle
    /\ lphase = "arg" /\ ln \in LogInputs /\ lres = 0
    /\ mphase = "idle" /\ mname = <<>> /\ mres = FILENAME(<<>>)

ApplyLog10 ==
    /\ lphase = "arg"
    /\ lres' = log10(ln)
    /\ lphase' = "done"
    /\ UNCHANGED <<ln, walkVars, matchVars>>

NextLog10 == ApplyLog10

SpecLog10 == InitLog10 /\ [][NextLog10]_vars

----------------------------------------------------------------------------
(* FILENAME applied to every short name over a small alphabet *)

MatchAlphabet == {"a", "1", "2", "\n"}

MatchNames == UNION {[1..k -> MatchAlphabet] : k \in 0..MaxNameLen}

InitMatch ==
    /\ WalkIdle
    /\ lphase = "idle" /\ ln = 0 /\ lres = 0
    /\ mphase = "arg" /\ mname \in MatchNames /\ mres = FILENAME(<<>>)

ApplyMatch ==
    /\ mphase = "arg"
    /\ mres' = FILENAME(mname)
    /\ mphase' = "done"
    /\ UNCHANGED <<mname, walkVars, logVars>>

NextMatch == ApplyMatch

SpecMatch == InitMatch /\ [][NextMatch]_vars

----------------------------------------------------------------------------
(* The claims *)

Handled == 1..Len(log)

RenameOutcomes == {"renamed", "rename_failed"}
SelectedOutcomes == {"renamed", "rename_failed", "dry_run"}
PanicOutcomes == {"panic_parse", "panic_add", "panic_try_from"}

\* the number of decimal digits of n >= 0, 0 counting as one digit
DigitCount(n) == Len(NatDigits(n))

\* C1: with dry_run set the file system stays what it was when the walk
\* started, and no entry is ever handed to rename
C1_DryRunLeavesFsUntouched ==
    cfg.dry_run =>
        /\ fs = fs0
        /\ \A i \in Handled : log[i].outcome \notin RenameOutcomes

\* a finished dry run that reported a rename in the root and one in a subdirectory
C1_Witness ==
    /\ cfg.dry_run /\ status = "Ok"
    /\ \E i, j \in Handled :
        /\ log[i].outcome = "dry_run" /\ log[i].dir = RootDir
        /\ log[i].newname # log[i].name
        /\ log[j].outcome = "dry_run" /\ log[j].dir # RootDir

\* C2: an entry that is a directory is never renamed, in recursive mode or not
C2_DirectoriesNeverRenamed ==
    \A i \in Handled : log[i].isDir => log[i].outcome # "renamed"

\* C3: a file whose name matched is selected for renaming (renamed, its rename
\* error reported, or reported by the dry run) exactly when its original number
\* is inside the inclusive range
C3_RenamedIffInRange ==
    \A i \in Handled :
        log[i].outcome \notin {"nonmatch", "recursed", "panic_parse"} =>
            (log[i].outcome \in SelectedOutcomes
                <=> /\ (cfg.start.some => log[i].number >= cfg.start.val)
                    /\ (cfg.end.some => log[i].number <= cfg.end.val))

HasDigit(name) == \E i \in 1..Len(name) : IsDigit(name[i])

FirstDigit(name) ==
    CHOOSE i \in 1..Len(name) :
        IsDigit(name[i]) /\ \A j \in 1..(i - 1) : ~IsDigit(name[j])

RunEnd(name) ==
    CHOOSE e \in FirstDigit(name)..Len(name) :
        /\ \A j \in FirstDigit(name)..e : IsDigit(name[j])
        /\ (e < Len(name) => ~IsDigit(name[e + 1]))

\* C4: the matcher reports no match exactly when the name has no digit;
\* otherwise the prefix ends before the first digit, the number is the maximal
\* digit run starting there and the suffix is all that follows
C4_FirstDigitRun ==
    mphase = "done" =>
        /\ ~mres.matched <=> ~HasDigit(mname)
        /\ mres.matched =>
            /\ mres.prefix = SubSeq(mname, 1, FirstDigit(mname) - 1)
            /\ mres.digits = SubSeq(mname, FirstDigit(mname), RunEnd(mname))
            /\ mres.suffix = SubSeq(mname, RunEnd(mname) + 1, Len(mname))

\* C5: with a width W and an adjusted number >= 0 the digits written are the
\* decimal representation left-padded with max(0, W - digits) zeros, 0 counting
\* as one digit, so they are max(W, digits) characters
C5_PaddedToWidth ==
    \A i \in Handled :
        (/\ log[i].outcome \in SelectedOutcomes
         /\ cfg.number_width.some
         /\ log[i].adjusted >= 0) =>
            /\ log[i].numstr =
                 Repeat0(Max(0, cfg.number_width.val - DigitCount(log[i].adjusted)))
                   \o NatDigits(log[i].adjusted)
            /\ Len(log[i].numstr) =
                 Max(cfg.number_width.val, DigitCount(log[i].adjusted))

\* C6: log10 returns k for 10^k - 1 and k + 1 for 10^k, for every k in 1..9,
\* and 10 for i32::MAX
C6_ExactAtPowersOfTen ==
    lphase = "done" =>
        /\ \A k \in 1..9 :
            /\ ln = Pow10(k) - 1 => lres = k
            /\ ln = Pow10(k) => lres = k + 1
        /\ ln = I32Max => lres = 10

\* log10 has answered for the largest power of ten
C6_Witness == lphase = "done" /\ ln = Pow10(9) /\ lres = 10

\* C7: an in-range entry whose adjusted number is negative, with a width set,
\* does not stop the walk, and its digits are '-' and the padded magnitude
C7_NegativePadded ==
    \A i \in Handled :
        /\ log[i].outcome # "panic_try_from"
        /\ (/\ log[i].outcome \in SelectedOutcomes
            /\ cfg.number_width.some
            /\ log[i].adjusted < 0) =>
               log[i].numstr =
                 <<"-">> \o Repeat0(Max(0, cfg.number_width.val
                                            - Len(NegDigits(log[i].adjusted))))
                         \o NegDigits(log[i].adjusted)

\* C8: an entry whose first digit run does not fit an i32 is skipped or
\* reported as a failure of that entry; it never stops the walk with a panic
C8_OversizedRunSkipped ==
    \A i \in Handled :
        LET m == FILENAME(log[i].name)
        IN (m.matched /\ ~ParseI32(m.digits).ok)
               => log[i].outcome \notin PanicOutcomes

\* C9: once a rename has failed the walk still goes on to its end: unless the
\* listing itself fails, it visits the remaining entries and returns Ok
C9_RenameFailureIsLocal ==
    (\E i \in Handled : log[i].outcome = "rename_failed")
        => status \in {"running", "Ok", "Err"}

\* C10: a file is the source of at most one rename of a run
C10_RenamedAtMostOnce ==
    \A i, j \in Handled :
        (/\ i < j
         /\ log[i].outcome = "renamed"
         /\ log[j].outcome = "renamed") => log[i].id # log[j].id

====
